---- MODULE Spec2Model ----
(***************************************************************************)
(* Model of cleanup.py: a script that deletes a fixed list of files and    *)
(* one directory, printing one status line per operation.                  *)
(*                                                                         *)
(* The filesystem is the environment: every target may initially be        *)
(* absent, a regular file or a directory, and a delete call on an existing *)
(* entry may succeed or raise.  Lines 15/16 and 25/27 are separate steps   *)
(* (existence check, then delete call), so that another process can be     *)
(* interleaved between them.                                               *)
(***************************************************************************)
EXTENDS Integers, Sequences, FiniteSets, TLC

\* ------------------------------------------------------------------ bounds
\* number of entries the directory target may contain
MaxChildren == 2
\* number of successive runs of the script
MaxRuns == 2

\* --------------------------------------------------------------- constants
test_files ==
  << "/data/projects/zion/compile_test.zig",
     "/data/projects/zion/test_search.zig",
     "/data/projects/zion/test_simple.zig",
     "/data/projects/zion/test_build.sh",
     "/data/projects/zion/cleanup.py" >>

test_project_dir == "/data/projects/zion/test-project"

NumFiles == Len(test_files)
FileTargets == {test_files[k] : k \in 1..NumFiles}

\* a path of the same tree that the script never names
OtherPath == "/data/projects/zion/build.zig"

Paths == FileTargets \cup {test_project_dir, OtherPath}
Children == 1..MaxChildren

\* exceptions the filesystem calls raise; all are subclasses of Exception
PermissionError == "PermissionError"
IsADirectoryError == "IsADirectoryError"
NotADirectoryError == "NotADirectoryError"
FileNotFoundError == "FileNotFoundError"
OSError == "OSError"
FsErrors ==
  {PermissionError, IsADirectoryError, NotADirectoryError, FileNotFoundError, OSError}

VARIABLES
  pc,        \* statement the script is at
  i,         \* index of the loop variable `file` in test_files
  fs,        \* path -> "absent" | "file" | "dir"
  contents,  \* entries inside test_project_dir
  out,       \* lines printed by the current run
  exit,      \* process exit status, -1 while running
  run,       \* number of the current run
  prevErrs   \* exception classes reported by the previous run

vars == <<pc, i, fs, contents, out, exit, run, prevErrs>>

\* ----------------------------------------------------------------- output
Line(t, p, e) == [tag |-> t, path |-> p, err |-> e]
Removed(p) == Line("Removed", p, "")
NotFound(p) == Line("File not found", p, "")
\* variant: the handler's message does not interpolate the path
ErrorRemovingNoPath(p, e) == Line("Error removing", "", e)
ErrorRemoving(p, e) == Line("Error removing", p, e)
RemovedDirectory(d) == Line("Removed directory", d, "")
ErrorRemovingDirectory(d, e) == Line("Error removing directory", d, e)
CleanupComplete == Line("Cleanup complete", "", "")

print(o, l) == Append(o, l)

\* ------------------------------------------------------------- filesystem
\* variant: the existence check is missing
existsAlways(f, p) == TRUE
\* variant: the existence check is inverted
existsInverted(f, p) == f[p] = "absent"
\* os.path.exists
exists(f, p) == f[p] # "absent"

\* variant: a missing path is not an error (as with `rm -f`)
os_remove_missing_ok(f, p) ==
  CASE f[p] = "absent" -> {"ok"}
    [] f[p] = "dir"    -> {IsADirectoryError, PermissionError}
    [] OTHER           -> {"ok", PermissionError, OSError}
\* os.remove: the outcomes the call can have on path p ("ok" or the
\* exception it raises)
os_remove_outcomes(f, p) ==
  CASE f[p] = "absent" -> {FileNotFoundError}
    [] f[p] = "dir"    -> {IsADirectoryError, PermissionError}
    [] OTHER           -> {"ok", PermissionError, OSError}

\* variant: the call returns without deleting
os_remove_noop(f, p) == f
\* os.remove: the filesystem after a successful call
os_remove(f, p) == [f EXCEPT ![p] = "absent"]

\* shutil.rmtree: the outcomes the call can have on path d
rmtree_outcomes(f, d) ==
  CASE f[d] = "absent" -> {FileNotFoundError}
    [] f[d] = "file"   -> {NotADirectoryError}
    [] OTHER           -> {"ok", PermissionError, OSError}

\* variant: the tree is deleted from its parent directory
rmtree_parent(f, d) == [p \in DOMAIN f |-> "absent"]
\* variant: errors are ignored and the directory stays (ignore_errors=True)
rmtree_ignore_errors(f, d) == f
\* shutil.rmtree: the filesystem after a successful call
rmtree(f, d) == [f EXCEPT ![d] = "absent"]

\* variant: the handler is `except PermissionError`
CatchesPermissionOnly(e) == e = PermissionError
\* variant: no handler
CatchesNothing(e) == FALSE
\* `except Exception` (lines 20 and 29)
Catches(e) == e \in FsErrors

\* variant: the list is walked backwards
FileAtReversed(k) == test_files[NumFiles + 1 - k]
\* the loop `for file in test_files`
FileAt(k) == test_files[k]
file == FileAt(i)

AfterFile(k) == IF k < NumFiles THEN "check" ELSE "dircheck"

\* ------------------------------------------------------------------- Init
Init ==
  /\ pc = "check"
  /\ i = 1
  /\ fs \in [Paths -> {"absent", "file", "dir"}]
  /\ fs[OtherPath] # "dir"
  /\ contents \in SUBSET Children
  /\ (fs[test_project_dir] # "dir" => contents = {})
  /\ out = << >>
  /\ exit = -1
  /\ run = 1
  /\ prevErrs = {}

\* ---------------------------------------------------------------- actions
\* line 15 (and 18-19): if os.path.exists(file) ... else print not found
CheckFile ==
  /\ pc = "check"
  /\ IF exists(fs, file)
       THEN /\ pc' = "remove"
            /\ UNCHANGED <<i, out>>
       ELSE /\ out' = print(out, NotFound(file))
            /\ pc' = AfterFile(i)
            /\ i' = IF i < NumFiles THEN i + 1 ELSE i
  /\ UNCHANGED <<fs, contents, exit, run, prevErrs>>

\* lines 16-17 and 20-21: os.remove(file), print, or the handler
RemoveFile ==
  /\ pc = "remove"
  /\ \E r \in os_remove_outcomes(fs, file) :
       IF r = "ok"
         THEN /\ fs' = os_remove(fs, file)
              /\ out' = print(out, Removed(file))
              /\ pc' = AfterFile(i)
              /\ i' = IF i < NumFiles THEN i + 1 ELSE i
              /\ UNCHANGED exit
         ELSE IF Catches(r)
           THEN /\ out' = print(out, ErrorRemoving(file, r))
                /\ pc' = AfterFile(i)
                /\ i' = IF i < NumFiles THEN i + 1 ELSE i
                /\ UNCHANGED <<fs, exit>>
           ELSE /\ pc' = "aborted"
                /\ exit' = 1
                /\ UNCHANGED <<fs, out, i>>
  /\ UNCHANGED <<contents, run, prevErrs>>

\* line 25: if os.path.exists(test_project_dir)
CheckDir ==
  /\ pc = "dircheck"
  /\ pc' = IF exists(fs, test_project_dir) THEN "rmtree" ELSE "complete"
  /\ UNCHANGED <<i, fs, contents, out, exit, run, prevErrs>>

\* lines 26-30: shutil.rmtree(test_project_dir), print, or the handler.
\* A failing rmtree has already deleted some of the entries (possibly all,
\* when the final rmdir fails, or none).
RemoveDir ==
  /\ pc = "rmtree"
  /\ \E r \in rmtree_outcomes(fs, test_project_dir) :
       IF r = "ok"
         THEN /\ fs' = rmtree(fs, test_project_dir)
              /\ contents' = {}
              /\ out' = print(out, RemovedDirectory(test_project_dir))
              /\ pc' = "complete"
              /\ UNCHANGED exit
         ELSE /\ \E gone \in SUBSET contents : contents' = contents \ gone
              /\ UNCHANGED fs
              /\ IF Catches(r)
                   THEN /\ out' = print(out, ErrorRemovingDirectory(test_project_dir, r))
                        /\ pc' = "complete"
                        /\ UNCHANGED exit
                   ELSE /\ pc' = "aborted"
                        /\ exit' = 1
                        /\ UNCHANGED out
  /\ UNCHANGED <<i, run, prevErrs>>

\* line 32: print("Cleanup complete"), then the interpreter exits
Complete ==
  /\ pc = "complete"
  /\ out' = print(out, CleanupComplete)
  /\ pc' = "done"
  /\ exit' = 0
  /\ UNCHANGED <<i, fs, contents, run, prevErrs>>

Run == CheckFile \/ RemoveFile \/ CheckDir \/ RemoveDir \/ Complete

\* the script is started again on the filesystem the last run left
ErrsOf(o) == {o[k].err : k \in 1..Len(o)} \ {""}

Rerun ==
  /\ pc = "done"
  /\ run < MaxRuns
  /\ run' = run + 1
  /\ prevErrs' = ErrsOf(out)
  /\ pc' = "check"
  /\ i' = 1
  /\ out' = << >>
  /\ exit' = -1
  /\ UNCHANGED <<fs, contents>>

\* another process removes a target while the script runs
ExtRemoveFile ==
  /\ pc \notin {"done", "aborted"}
  /\ \E p \in FileTargets :
       /\ fs[p] # "absent"
       /\ fs' = [fs EXCEPT ![p] = "absent"]
  /\ UNCHANGED <<pc, i, contents, out, exit, run, prevErrs>>

ExtRemoveDir ==
  /\ pc \notin {"done", "aborted"}
  /\ fs[test_project_dir] # "absent"
  /\ fs' = [fs EXCEPT ![test_project_dir] = "absent"]
  /\ contents' = {}
  /\ UNCHANGED <<pc, i, out, exit, run, prevErrs>>

\* --------------------------------------------------------- specifications
\* one run, no other actor
Next == Run
Spec == Init /\ [][Next]_vars
\* one run; the script is a sequential program that always takes its next step
FairSpec == Init /\ [][Next]_vars /\ WF_vars(Next)

\* successive runs
NextTwice == Run \/ Rerun
SpecTwice == Init /\ [][NextTwice]_vars

\* one run interleaved with another process
NextRace == Run \/ ExtRemoveFile \/ ExtRemoveDir
SpecRace == Init /\ [][NextRace]_vars

TypeOK ==
  /\ pc \in {"check", "remove", "dircheck", "rmtree", "complete", "done", "aborted"}
  /\ i \in 1..NumFiles
  /\ exit \in {-1, 0, 1}

\* ------------------------------------------------------ helpers for claims
\* the statements of the claims name paths, entries and lines directly
D == "/data/projects/zion/test-project"
Present(p) == fs[p] # "absent"
Cur == test_files[i]
PcAfterFile == IF i < NumFiles THEN "check" ELSE "dircheck"
Msg(t, p, e) == [tag |-> t, path |-> p, err |-> e]
MsgRemoved(p) == Msg("Removed", p, "")
MsgNotFound(p) == Msg("File not found", p, "")
MsgErrorRemoving(p, e) == Msg("Error removing", p, e)
MsgRemovedDirectory(d) == Msg("Removed directory", d, "")
MsgErrorRemovingDirectory(d, e) == Msg("Error removing directory", d, e)
MsgCleanupComplete == Msg("Cleanup complete", "", "")
ErrsPrinted == {out[k].err : k \in 1..Len(out)} \ {""}
FileTags == {"Removed", "File not found", "Error removing"}
DirTags == {"Removed directory", "Error removing directory"}
IsFileLine(l) == l.tag \in FileTags
IsDirLine(l) == l.tag \in DirTags
LinesFor(p) == {k \in 1..Len(out) : out[k].path = p}
LinesTagged(T) == {k \in 1..Len(out) : out[k].tag \in T}
InOut(l) == \E k \in 1..Len(out) : out[k] = l
\* the script (not another process) takes a step
ScriptStep == <<pc, i>>' # <<pc, i>>
\* file k of the list has been dealt with
Processed(k) == k < i \/ pc \notin {"check", "remove"}
OneLinePerProcessedFile ==
  \A k \in 1..NumFiles :
    Cardinality(LinesFor(test_files[k])) = IF Processed(k) THEN 1 ELSE 0

\* ---------------------------------------------------------------------- C1
\* C1: every run terminates, and its output ends with the line
\* "Cleanup complete", printed exactly once and last, however many of the
\* earlier file or directory operations failed.
C1_Safe ==
  /\ Cardinality(LinesTagged({"Cleanup complete"})) <= 1
  /\ (InOut(MsgCleanupComplete) => out[Len(out)] = MsgCleanupComplete)
  /\ (pc = "done" => InOut(MsgCleanupComplete))
C1_CleanupCompleteLast == <>(pc = "done") /\ []C1_Safe
C1_Witness ==
  /\ pc = "done"
  /\ out[Len(out)] = MsgCleanupComplete
  /\ Cardinality(LinesTagged({"Error removing"})) >= 2
  /\ Cardinality(LinesTagged({"Error removing directory"})) = 1

\* ---------------------------------------------------------------------- C2
\* C2: a failing delete of a file target P is caught where it happens and
\* reported as "Error removing P: <error>"; the run goes on to the next
\* target, every later file and the directory are still processed, and the
\* run ends with exit status 0.
C2_Act ==
  (ScriptStep /\ pc = "remove" /\ fs'[Cur] # "absent") =>
     /\ \E e \in FsErrors : out' = Append(out, MsgErrorRemoving(Cur, e))
     /\ pc' = PcAfterFile
     /\ exit' = exit
C2_Inv ==
  /\ pc # "aborted"
  /\ exit # 1
  /\ (pc = "done" =>
        /\ exit = 0
        /\ \A k \in 1..NumFiles : Cardinality(LinesFor(test_files[k])) = 1
        /\ (Present(D) => Cardinality(LinesTagged({"Error removing directory"})) = 1))
C2_FailureNeverAborts == []C2_Inv /\ [][C2_Act]_vars
C2_Witness ==
  /\ pc = "done"
  /\ exit = 0
  /\ \E e \in FsErrors : out[1] = MsgErrorRemoving(test_files[1], e)
  /\ out[2] = MsgRemoved(test_files[2])
  /\ InOut(MsgRemovedDirectory(D))

\* ---------------------------------------------------------------------- C3
\* C3: after a run with no other actor, every file target either does not
\* exist or still exists and has an "Error removing P: ..." line in the
\* output.
C3_NoSilentLeftover ==
  pc = "done" =>
    \A p \in FileTargets :
      Present(p) => \E e \in FsErrors : InOut(MsgErrorRemoving(p, e))
C3_Witness ==
  /\ pc = "done"
  /\ Present(test_files[1])
  /\ \E e \in FsErrors : InOut(MsgErrorRemoving(test_files[1], e))
  /\ ~Present(test_files[2])
  /\ InOut(MsgRemoved(test_files[2]))

\* ---------------------------------------------------------------------- C4
\* C4 as stated: a run that follows another run, with no permission error
\* in either, prints only "File not found: P" for every file entry, nothing
\* for the directory, then "Cleanup complete", and changes nothing on the
\* filesystem.
NotFoundTranscript ==
  [k \in 1..(NumFiles + 1) |->
     IF k <= NumFiles THEN MsgNotFound(test_files[k]) ELSE MsgCleanupComplete]
OnlyNotFound ==
  /\ \A k \in 1..Len(out) : out[k].tag \in {"File not found", "Cleanup complete"}
  /\ (pc = "done" => out = NotFoundTranscript)
NoPermissionErrors == PermissionError \notin (prevErrs \cup ErrsPrinted)
C4_Original == (run >= 2 /\ NoPermissionErrors) => OnlyNotFound

\* C4 (amended): a run that follows a run in which no delete failed, for
\* whatever reason, prints only "File not found: P" for every file entry,
\* nothing for the directory, then "Cleanup complete", and changes nothing
\* on the filesystem.
C4_Inv == (run >= 2 /\ prevErrs = {}) => OnlyNotFound
C4_Act == (run >= 2 /\ prevErrs = {}) => (fs' = fs /\ contents' = contents)
C4_SecondRunOnlyNotFound == []C4_Inv /\ [][C4_Act]_vars
C4_Witness ==
  /\ run = 2
  /\ prevErrs = {}
  /\ pc = "done"
  /\ out = NotFoundTranscript

\* ---------------------------------------------------------------------- C5
\* C5: each file target gets exactly one outcome line, decided by its state
\* when it is processed: "File not found: P" if it does not exist (no delete
\* is attempted), "Removed P" if the delete succeeds, "Error removing P:
\* <error>" if it fails; "Removed P" is never printed for a delete that did
\* not succeed.
C5_Act ==
  /\ (ScriptStep /\ pc = "check" /\ ~Present(Cur)) =>
        /\ out' = Append(out, MsgNotFound(Cur))
        /\ fs' = fs
        /\ pc' # "remove"
  /\ (ScriptStep /\ pc = "check" /\ Present(Cur)) =>
        /\ out' = out
        /\ pc' = "remove"
  /\ (ScriptStep /\ pc = "remove") =>
        \/ /\ fs[Cur] # "absent"
           /\ fs'[Cur] = "absent"
           /\ out' = Append(out, MsgRemoved(Cur))
        \/ /\ fs' = fs
           /\ \E e \in FsErrors : out' = Append(out, MsgErrorRemoving(Cur, e))
C5_Inv ==
  /\ OneLinePerProcessedFile
  /\ \A p \in FileTargets : InOut(MsgRemoved(p)) => ~Present(p)
C5_OneOutcomeLinePerFile == []C5_Inv /\ [][C5_Act]_vars
C5_Witness ==
  /\ pc = "dircheck"
  /\ out[1] = MsgNotFound(test_files[1])
  /\ out[2] = MsgRemoved(test_files[2])
  /\ \E e \in FsErrors : out[3] = MsgErrorRemoving(test_files[3], e)
  /\ Len(out) = NumFiles

\* ---------------------------------------------------------------------- C6
\* C6: a directory target that does not exist when it is checked is left
\* alone and gets no line at all, whereas an absent file target gets
\* "File not found".
C6_Act ==
  /\ (ScriptStep /\ pc = "dircheck" /\ ~Present(D)) =>
        /\ out' = out
        /\ fs' = fs
        /\ contents' = contents
        /\ pc' = "complete"
  /\ (out' # out /\ IsDirLine(out'[Len(out')])) => (pc = "rmtree" /\ Present(D))
  /\ (ScriptStep /\ pc = "check" /\ ~Present(Cur)) =>
        out' = Append(out, MsgNotFound(Cur))
C6_Inv ==
  (pc \in {"complete", "done"} /\ ~Present(D) /\ ~InOut(MsgRemovedDirectory(D)))
     => LinesTagged(DirTags) = {}
C6_AbsentDirectorySilent == []C6_Inv /\ [][C6_Act]_vars
C6_Witness ==
  /\ pc = "done"
  /\ ~Present(D)
  /\ LinesFor(D) = {}
  /\ InOut(MsgNotFound(test_files[NumFiles]))

\* ---------------------------------------------------------------------- C7
\* C7: the lines come in the order of the target list, every file line
\* precedes any directory line, the directory line precedes "Cleanup
\* complete", and no file is processed after the directory.
RankOf(l) ==
  IF IsFileLine(l) THEN CHOOSE k \in 1..NumFiles : test_files[k] = l.path
  ELSE IF IsDirLine(l) THEN NumFiles + 1
  ELSE NumFiles + 2
C7_OutputInListOrder ==
  /\ \A a, b \in 1..Len(out) : a < b => RankOf(out[a]) < RankOf(out[b])
  /\ (pc \in {"check", "remove"} => LinesTagged(DirTags \cup {"Cleanup complete"}) = {})
C7_Witness ==
  /\ pc = "done"
  /\ Len(out) = NumFiles + 2
  /\ IsFileLine(out[1])
  /\ IsDirLine(out[NumFiles + 1])

\* ---------------------------------------------------------------------- C8
\* C8: a run never creates an entry and never removes anything but the
\* file target it is at, or the directory target and its contents; a file
\* target found absent and every path outside the targets stay as they
\* were.
C8_Act ==
  /\ \A p \in Paths :
       fs'[p] # fs[p] =>
         /\ fs'[p] = "absent"
         /\ \/ (pc = "remove" /\ p = Cur)
            \/ (pc = "rmtree" /\ p = D)
  /\ contents' \subseteq contents
  /\ (contents' # contents => pc = "rmtree")
  /\ ((pc = "check" /\ ~Present(Cur)) => fs' = fs)
  /\ fs'[OtherPath] = fs[OtherPath]
C8_Frame == [][C8_Act]_vars
C8_Witness ==
  /\ pc = "done"
  /\ fs[OtherPath] = "file"
  /\ InOut(MsgRemoved(test_files[1]))
  /\ InOut(MsgNotFound(test_files[2]))
  /\ InOut(MsgRemovedDirectory(D))

\* ---------------------------------------------------------------------- C9
\* C9: when another process removes a target between the existence check
\* and the delete call, the run does not abort: for a file target it prints
\* the single line "Error removing P: ..." (not "File not found: P"), for
\* the directory target "Error removing directory D: ...", and it goes on
\* and ends with "Cleanup complete".
C9_Act ==
  /\ (ScriptStep /\ pc = "remove" /\ ~Present(Cur)) =>
        /\ out' = Append(out, MsgErrorRemoving(Cur, FileNotFoundError))
        /\ pc' = PcAfterFile
  /\ (ScriptStep /\ pc = "rmtree" /\ ~Present(D)) =>
        /\ out' = Append(out, MsgErrorRemovingDirectory(D, FileNotFoundError))
        /\ pc' = "complete"
C9_Inv ==
  /\ pc # "aborted"
  /\ OneLinePerProcessedFile
  /\ Cardinality(LinesTagged(DirTags)) <= 1
  /\ (pc = "done" => (out[Len(out)] = MsgCleanupComplete /\ exit = 0))
C9_RaceReportedAsError == []C9_Inv /\ [][C9_Act]_vars
C9_Witness ==
  /\ pc = "done"
  /\ out[1] = MsgErrorRemoving(test_files[1], FileNotFoundError)
  /\ InOut(MsgErrorRemovingDirectory(D, FileNotFoundError))
  /\ out[Len(out)] = MsgCleanupComplete

\* --------------------------------------------------------------------- C10
\* C10: a directory target that exists when checked gets exactly one line:
\* "Removed directory D" only when the recursive delete completed, and then
\* D and its contents are gone, or "Error removing directory D: <error>"
\* when it failed, and then the run goes on to "Cleanup complete" with D
\* possibly partly deleted; after a run D never still exists without an
\* "Error removing directory" line.
C10_Act ==
  (ScriptStep /\ pc = "rmtree") =>
     /\ pc' = "complete"
     /\ \/ /\ out' = Append(out, MsgRemovedDirectory(D))
           /\ fs'[D] = "absent"
           /\ contents' = {}
        \/ /\ \E e \in FsErrors : out' = Append(out, MsgErrorRemovingDirectory(D, e))
           /\ fs'[D] = fs[D]
           /\ contents' \subseteq contents
C10_Inv ==
  /\ Cardinality(LinesTagged(DirTags)) <= 1
  /\ (InOut(MsgRemovedDirectory(D)) => (~Present(D) /\ contents = {}))
  /\ ((pc \in {"complete", "done"} /\ Present(D)) =>
         Cardinality(LinesTagged({"Error removing directory"})) = 1)
C10_DirectoryOutcome == []C10_Inv /\ [][C10_Act]_vars
C10_Witness ==
  /\ pc = "done"
  /\ fs[D] = "dir"
  /\ contents # {}
  /\ contents # Children
  /\ \E e \in FsErrors : InOut(MsgErrorRemovingDirectory(D, e))
====
